---- MODULE Spec2Model ----
(***************************************************************************)
(* Model of the pooled rendering engine (src/src/core/renderer.rs):        *)
(* the render semaphore, the browser pool (idle ring + current_size) and   *)
(* the per-request pipeline render -> render_sync with its scope guards.   *)
(*                                                                         *)
(* Every access to shared state (semaphore, ArrayQueue, RwLock<usize>) is  *)
(* one step; code that touches only the calling thread's locals is folded  *)
(* into the step of the shared access next to it.                          *)
(*                                                                         *)
(* A browser instance is represented by how it came to exist: "member"     *)
(* (spawned by BrowserPool::new or by the scale-up branch of acquire) or   *)
(* "temp" (spawned by acquire's fallback branch).                          *)
(***************************************************************************)
EXTENDS Integers, Sequences, FiniteSets, TLC

\* ---- bounds of the model -------------------------------------------------
NumReqs == 3            \* request slots that can be in flight at once
MaxSize == 3            \* largest max_pool_size handed to with_config
MaxConcurrent == 2      \* max_concurrent handed to with_config
MaxDataLen == 2         \* longest string carried by request.data
MaxMinSize == 4         \* largest min_size handed to BrowserPool::new
NumThreads == 2         \* concurrent renders of the single-browser engine

\* ---- program constants ---------------------------------------------------
MinSize == 1            \* MIN_POOL_SIZE
ThresholdNum == 4       \* SCALE_UP_THRESHOLD = 0.8 = 4/5
ThresholdDen == 5
MAX_CONCURRENT_RENDERS == 20    \* const MAX_CONCURRENT_RENDERS: usize = 20
MAX_ATTEMPTS == 50      \* const MAX_ATTEMPTS: u32 = 50
POLL_INTERVAL_MS == 100 \* const POLL_INTERVAL_MS: u64 = 100

Reqs == 1..NumReqs
NoInst == "none"
Kinds == {"member", "temp"}

VARIABLES
    ring,           \* BrowserPool.pool: ArrayQueue (FIFO) of idle instances
    current_size,   \* BrowserPool.current_size
    max_size,       \* BrowserPool.max_size, the capacity of the ring
    live,           \* number of browser processes that exist
    permits,        \* render_semaphore.available_permits()
    pc,             \* per request: position in render / render_sync
    permit,         \* per request: the render future holds _permit
    cur,            \* per request: acquire's local `current`
    inst,           \* per request: BrowserPoolGuard.instance (NoInst = None)
    tab,            \* per request: "none" | "open" | "closed"
    guards,         \* per request: live scope guards, in declaration order
    acquired,       \* per request: BrowserPool::acquire returned Ok
    relCount,       \* per request: calls of BrowserPool::release
    dropped,        \* per request: its last render future was dropped unpolled
    \* one call of wait_for_render_ready, seen on its own
    poll_interval_ms,   \* request.options.poll_interval_ms (Option: {} or {v})
    render_delay_ms,    \* request.options.render_delay_ms (Option: {} or {v})
    renderReady,        \* window.renderReady of the page
    renderError,        \* window.renderError of the page
    attempts,           \* the local `attempts`
    wpc,                \* position in wait_for_render_ready
    wresult,            \* what wait_for_render_ready returned
    polls,              \* evaluations of "window.renderReady === true" so far
    sleeps,             \* the durations of the sleep() calls so far, in order
    \* one call of template::generate_html, seen on its own
    request,            \* the RenderRequest
    html,               \* what generate_html returned
    \* calls of render_base64, seen on their own
    response,           \* what the last render_base64 returned
    responses,          \* <<format, mime_type>> of every Ok response so far
    \* one call of BrowserPool::release, seen on its own
    rel,                \* its argument, the probe's answer, the ring it found
    \* one call of render, seen step by step
    stage,              \* the step render / render_sync runs next
    trace,              \* the steps started so far and how each ended
    outcome,            \* what render returned: "none" | "ok" | the error
    device_scale_factor, \* request.options.device_scale_factor (Option)
    \* one POST /render, seen on its own
    return_base64,      \* request.options.return_base64 (Option)
    engine_result,      \* what the engine returned to the handler
    http,               \* the handler's answer
    \* one call of BrowserPool::new, seen step by step
    min_size,           \* its argument min_size
    new_i,              \* the loop variable i of its for loop
    newpc,              \* "loop" | "ok" | "err": in the loop, returned Ok, returned Err
    \* the single-browser engine of src/renderer.rs
    cache,              \* RenderingEngine.browser: 0 = None, else the browser
    browsers,           \* number of Browser::new calls that succeeded so far
    spc,                \* per thread: position in render_sync
    sgot,               \* per thread: the local `browser` (0 = not bound)
    stries,             \* per thread: calls of get_or_create_browser so far
    stab,               \* per thread: its tab: "none" | "open" | "closed"
    sresult             \* per thread: what render_sync returned

vars == <<ring, current_size, max_size, live, permits, pc, permit, cur,
          inst, tab, guards, acquired, relCount, dropped,
          poll_interval_ms, render_delay_ms, renderReady, renderError,
          attempts, wpc, wresult, polls, sleeps, request, html,
          response, responses, rel, stage, trace, outcome,
          device_scale_factor, return_base64, engine_result, http,
          min_size, new_i, newpc, cache, browsers, spc, sgot, stries, stab,
          sresult>>

engineVars == <<ring, current_size, max_size, live, permits, pc, permit, cur,
                inst, tab, guards, acquired, relCount, dropped>>
waitVars == <<poll_interval_ms, render_delay_ms, renderReady, renderError,
              attempts, wpc, wresult, polls, sleeps>>

composeVars == <<request, html>>

base64Vars == <<response, responses>>

releaseVars == <<rel>>

\* The variables of the functions that are looked at without the rest of the
\* render pipeline.
pipeVars == <<stage, trace, outcome, device_scale_factor>>

routeVars == <<return_base64, engine_result, http>>

newVars == <<min_size, new_i, newpc>>

singleVars == <<cache, browsers, spc, sgot, stries, stab, sresult>>

laterVars == <<releaseVars, pipeVars, routeVars, newVars, singleVars>>

\* The variables of the functions looked at on their own.
asideVars == <<waitVars, composeVars, base64Vars, laterVars>>

\* What a step of a request that has a permit or a worker leaves alone.
detailVars == <<asideVars, dropped>>

poolVars == <<ring, current_size, max_size, live>>
reqLocals == <<cur, inst, tab, guards, acquired, relCount>>

\* ---- helpers -------------------------------------------------------------
Min(a, b) == IF a < b THEN a ELSE b

\* Positions at which the blocking worker of a request is inside render_sync.
WorkerPcs == {"start", "read_size", "read_len", "scale", "leave"}
AllPcs == {"idle", "waiting", "finished"} \cup WorkerPcs

Running(r) == pc[r] \in WorkerPcs

\* The request holds a browser instance handed out by acquire.
Holds(r) == inst[r] # NoInst
Holders == {r \in Reqs : Holds(r)}

\* usage_ratio >= SCALE_UP_THRESHOLD && current < self.max_size, with
\* usage_ratio = 1.0 - available / current  (exact for the sizes modelled).
ShouldScale(available, current) ==
    /\ current > 0
    /\ ThresholdDen * (current - available) >= ThresholdNum * current
    /\ current < max_size

\* A scale-up that writes back the size it read.
NewSizeStale(current) == current

\* let new_size = (current + 1).min(self.max_size)
NewSize(current) == Min(current + 1, max_size)

\* A ring without a capacity.
PushAlways(q) == TRUE

\* ArrayQueue::push: Ok while len < capacity
PushOk(q) == Len(q) < max_size

\* A release that pushes without looking at the probe.
ReleaseRingUnprobed(q, instance, healthy) ==
    IF PushOk(q) THEN Append(q, instance) ELSE q

\* BrowserPool::release: the ring after release(instance) when is_healthy
\* answered `healthy`: pushed if healthy and the push succeeds, else as it was
\* (the instance is dropped at the end of release).
ReleaseRing(q, instance, healthy) ==
    IF healthy /\ PushOk(q) THEN Append(q, instance) ELSE q

\* A pop that hands out the head and leaves it in the ring.
PopKeepsHead(q) == q

\* ArrayQueue::pop hands out the head and leaves the rest
PopRest(q) == Tail(q)

\* An acquire that puts the instance that failed its probe back into the ring.
RequeueUnhealthy(rest, instance) == Append(rest, instance)

\* acquire's else branch after a failed is_healthy: only a warning is logged and
\* `instance` goes out of scope; the ring keeps what pop left in it.
DiscardUnhealthy(rest, instance) == rest

\* Guards dropped in the order of their declaration.
DropStepDeclared(gs) == [guard |-> gs[1], rest |-> Tail(gs)]

\* Rust drops the locals of a scope in reverse order of declaration: the guard
\* dropped next and the guards still live after it.
DropStep(gs) == [guard |-> gs[Len(gs)], rest |-> SubSeq(gs, 1, Len(gs) - 1)]

\* ---- construction ---------------------------------------------------------
\* with_config(MinSize, max_size, MaxConcurrent). BrowserPool::new makes
\* min_size spawn attempts and pushes the successes into a ring of capacity
\* max_size; construction fails when the ring stays empty.
InitEngine ==
    /\ max_size \in 1..MaxSize
    /\ \E k \in 1..Min(MinSize, max_size) :
          /\ ring = [i \in 1..k |-> "member"]
          /\ current_size = k
          /\ live = k
    /\ permits = MaxConcurrent
    /\ pc = [r \in Reqs |-> "idle"]
    /\ permit = [r \in Reqs |-> FALSE]
    /\ cur = [r \in Reqs |-> 0]
    /\ inst = [r \in Reqs |-> NoInst]
    /\ tab = [r \in Reqs |-> "none"]
    /\ guards = [r \in Reqs |-> <<>>]
    /\ acquired = [r \in Reqs |-> FALSE]
    /\ relCount = [r \in Reqs |-> 0]
    /\ dropped = [r \in Reqs |-> FALSE]

\* No call of wait_for_render_ready is being looked at.
NoWait ==
    /\ poll_interval_ms = {}
    /\ render_delay_ms = {}
    /\ renderReady = <<"bool", "false">>
    /\ renderError = <<"null", "null">>
    /\ attempts = 0
    /\ wpc = "none"
    /\ wresult = <<"none">>
    /\ polls = 0
    /\ sleeps = <<>>

\* No call of generate_html is being looked at.
NoCompose ==
    /\ request = [name |-> "", version |-> "", cdn_url |-> {}, data |-> <<>>,
                  format |-> ""]
    /\ html = <<"none">>

\* No call of render_base64 is being looked at.
NoBase64 ==
    /\ response = <<"none">>
    /\ responses = {}

\* No call of release is being looked at.
NoRelease == rel = [instance |-> NoInst, healthy |-> FALSE, before |-> <<>>, done |-> FALSE]

\* No call of render is being followed step by step.
NoPipeline ==
    /\ stage = "idle"
    /\ trace = <<>>
    /\ outcome = "none"
    /\ device_scale_factor = {}

\* The handler has not answered.
NoAnswer == [status |-> 0, content_type |-> "", body |-> <<>>]

\* No POST /render is being handled.
NoRoute ==
    /\ return_base64 = {}
    /\ engine_result = <<"none">>
    /\ http = NoAnswer

\* BrowserPool::new(MinSize, ..) has returned Ok.
NoNew ==
    /\ min_size = MinSize
    /\ new_i = MinSize
    /\ newpc = "ok"

\* The threads that call render_sync of the single-browser engine.
Threads == 1..NumThreads

\* The single-browser engine is not in use.
NoSingle ==
    /\ cache = 0
    /\ browsers = 0
    /\ spc = [t \in Threads |-> "idle"]
    /\ sgot = [t \in Threads |-> 0]
    /\ stries = [t \in Threads |-> 0]
    /\ stab = [t \in Threads |-> "none"]
    /\ sresult = [t \in Threads |-> "none"]

\* None of the functions that are looked at on their own is running.
NoLater == NoRelease /\ NoPipeline /\ NoRoute /\ NoNew /\ NoSingle

Init == InitEngine /\ NoWait /\ NoCompose /\ NoBase64 /\ NoLater

\* The engine as it is built with max_pool_size = MaxSize, left alone while one
\* of its functions is looked at on its own.
EngineAside == InitEngine /\ max_size = MaxSize

\* ---- RenderingEngine::render (async side) ---------------------------------
\* A caller invokes render(): the future starts waiting on the semaphore.
Submit(r) ==
    /\ pc[r] = "idle"
    /\ pc' = [pc EXCEPT ![r] = "waiting"]
    /\ dropped' = [dropped EXCEPT ![r] = FALSE]
    /\ UNCHANGED <<poolVars, permits, permit, reqLocals>>
    /\ UNCHANGED asideVars

\* A render that starts its worker without waiting for a free permit.
AcquirePermitNoWait(r) ==
    /\ pc[r] = "waiting"
    /\ permits' = permits - 1
    /\ permit' = [permit EXCEPT ![r] = TRUE]
    /\ pc' = [pc EXCEPT ![r] = "start"]
    /\ UNCHANGED <<poolVars, reqLocals>>
    /\ UNCHANGED detailVars

\* render_semaphore.acquire().await returns; with no await in between the
\* future hands render_sync to spawn_blocking.
AcquirePermit(r) ==
    /\ pc[r] = "waiting"
    /\ permits > 0
    /\ permits' = permits - 1
    /\ permit' = [permit EXCEPT ![r] = TRUE]
    /\ pc' = [pc EXCEPT ![r] = "start"]
    /\ UNCHANGED <<poolVars, reqLocals>>
    /\ UNCHANGED detailVars

\* A dropped future that takes a permit with it.
CancelWaitingKeepsPermit(r) ==
    /\ pc[r] = "waiting"
    /\ permits > 0
    /\ pc' = [pc EXCEPT ![r] = "idle"]
    /\ dropped' = [dropped EXCEPT ![r] = TRUE]
    /\ permits' = permits - 1
    /\ UNCHANGED <<poolVars, permit, reqLocals>>
    /\ UNCHANGED asideVars

\* The caller drops the render future while it waits for a permit: the Acquire
\* future of the semaphore is dropped with it and nothing else has happened.
CancelWaiting(r) ==
    /\ pc[r] = "waiting"
    /\ pc' = [pc EXCEPT ![r] = "idle"]
    /\ dropped' = [dropped EXCEPT ![r] = TRUE]
    /\ UNCHANGED <<poolVars, permits, permit, reqLocals>>
    /\ UNCHANGED asideVars

\* The caller drops the render future after spawn_blocking: _permit is dropped
\* with the future and the blocking worker, which cannot be aborted, runs on.
CancelRunning(r) ==
    /\ Running(r)
    /\ permit[r]
    /\ permit' = [permit EXCEPT ![r] = FALSE]
    /\ permits' = permits + 1
    /\ UNCHANGED <<poolVars, pc, reqLocals>>
    /\ UNCHANGED detailVars

\* A render that ends without giving its permit back.
CompleteKeepsPermit(r) ==
    /\ pc[r] = "finished"
    /\ permit' = [permit EXCEPT ![r] = FALSE]
    /\ pc' = [pc EXCEPT ![r] = "idle"]
    /\ tab' = [tab EXCEPT ![r] = "none"]
    /\ acquired' = [acquired EXCEPT ![r] = FALSE]
    /\ relCount' = [relCount EXCEPT ![r] = 0]
    /\ UNCHANGED <<poolVars, permits, cur, inst, guards>>
    /\ UNCHANGED detailVars

\* The worker has returned: a live future takes the result and drops _permit,
\* a dropped one has its result discarded. The slot is free for a new request.
Complete(r) ==
    /\ pc[r] = "finished"
    /\ permits' = IF permit[r] THEN permits + 1 ELSE permits
    /\ permit' = [permit EXCEPT ![r] = FALSE]
    /\ pc' = [pc EXCEPT ![r] = "idle"]
    /\ tab' = [tab EXCEPT ![r] = "none"]
    /\ acquired' = [acquired EXCEPT ![r] = FALSE]
    /\ relCount' = [relCount EXCEPT ![r] = 0]
    /\ UNCHANGED <<poolVars, cur, inst, guards>>
    /\ UNCHANGED detailVars

\* ---- RenderingEngine::render_sync (blocking worker) -----------------------
\* render_sync returns an error before any guard exists (generate_html or
\* acquire failed).
FailEarly(r) ==
    /\ pc' = [pc EXCEPT ![r] = "finished"]
    /\ cur' = [cur EXCEPT ![r] = 0]
    /\ UNCHANGED <<inst, tab, guards, acquired>>

\* acquire returned Ok(instance): render_sync builds _pool_guard around it and
\* runs on to the point where it leaves. Either new_tab()? fails, or the tab is
\* opened, tab_guard is built and the rest of the body (viewport, navigate,
\* registry lookup, selector wait, readiness, capture) is left by return, by
\* `?` or by a panic: each time with the guards built so far still to drop.
GotInstance(r, i) ==
    /\ inst' = [inst EXCEPT ![r] = i]
    /\ acquired' = [acquired EXCEPT ![r] = TRUE]
    /\ cur' = [cur EXCEPT ![r] = 0]
    /\ pc' = [pc EXCEPT ![r] = "leave"]
    /\ \/ /\ guards' = [guards EXCEPT ![r] = <<"pool">>]          \* new_tab failed
          /\ UNCHANGED tab
       \/ /\ guards' = [guards EXCEPT ![r] = <<"pool", "tab">>]
          /\ tab' = [tab EXCEPT ![r] = "open"]

\* Fallback of acquire: BrowserInstance::new(&self.launch_options).map(Arc::new);
\* the new process is temporary, a failed spawn is acquire's error.
Fallback(r, spawned) ==
    IF spawned
    THEN /\ live' = live + 1
         /\ GotInstance(r, "temp")
    ELSE /\ FailEarly(r)
         /\ UNCHANGED live

\* let html = template::generate_html(request)?; then BrowserPool::acquire up to
\* `if let Some(instance) = self.pool.pop()` and the is_healthy probe of the
\* popped instance.
Start(r) ==
    /\ pc[r] = "start"
    /\ \/ /\ FailEarly(r)                                   \* generate_html failed
          /\ UNCHANGED <<ring, live>>
       \/ /\ ring = <<>>                                    \* pop() = None
          /\ pc' = [pc EXCEPT ![r] = "read_size"]
          /\ UNCHANGED <<ring, live, cur, inst, tab, guards, acquired>>
       \/ /\ ring # <<>>                                    \* popped, healthy
          /\ ring' = PopRest(ring)
          /\ GotInstance(r, Head(ring))
          /\ UNCHANGED live
       \/ /\ ring # <<>>                                    \* popped, unhealthy: dropped
          /\ ring' = DiscardUnhealthy(PopRest(ring), Head(ring))
          /\ live' = live - 1
          /\ pc' = [pc EXCEPT ![r] = "read_size"]
          /\ UNCHANGED <<cur, inst, tab, guards, acquired>>
    /\ UNCHANGED <<current_size, max_size, permits, permit, relCount>>
    /\ UNCHANGED detailVars

\* let current = *self.current_size.read();
AcquireReadSize(r) ==
    /\ pc[r] = "read_size"
    /\ cur' = [cur EXCEPT ![r] = current_size]
    /\ pc' = [pc EXCEPT ![r] = "read_len"]
    /\ UNCHANGED <<poolVars, permits, permit, inst, tab, guards, acquired, relCount>>
    /\ UNCHANGED detailVars

\* An acquire that, instead of spawning when the pool is busy, goes back to
\* read the size again until an instance has been released.
AcquireReadLenRetry(r) ==
    /\ pc[r] = "read_len"
    /\ ShouldScale(Len(ring), cur[r])
    /\ pc' = [pc EXCEPT ![r] = "read_size"]
    /\ UNCHANGED <<poolVars, permits, permit, reqLocals>>
    /\ UNCHANGED detailVars

\* let available = self.pool.len(); and the scale-up test on the two reads
\* succeeds: acquire enters the scale-up branch.
AcquireReadLenScale(r) ==
    /\ pc[r] = "read_len"
    /\ ShouldScale(Len(ring), cur[r])
    /\ pc' = [pc EXCEPT ![r] = "scale"]
    /\ UNCHANGED <<poolVars, permits, permit, reqLocals>>
    /\ UNCHANGED detailVars

\* let available = self.pool.len(); and the scale-up test fails: acquire goes
\* straight to the fallback spawn.
AcquireReadLenFallback(r, spawned) ==
    /\ pc[r] = "read_len"
    /\ ~ShouldScale(Len(ring), cur[r])
    /\ Fallback(r, spawned)
    /\ UNCHANGED <<ring, current_size, max_size, permits, permit, relCount>>
    /\ UNCHANGED detailVars

\* The scale-up branch, spawn succeeded: BrowserInstance::new, then
\* *self.current_size.write() = new_size; return Ok(instance).
AcquireScaleUp(r) ==
    /\ pc[r] = "scale"
    /\ live' = live + 1
    /\ current_size' = NewSize(cur[r])
    /\ GotInstance(r, "member")
    /\ UNCHANGED <<ring, max_size, permits, permit, relCount>>
    /\ UNCHANGED detailVars

\* A failed scale-up that has counted the instance it did not get.
AcquireScaleUpFailedCounted(r, spawned) ==
    /\ pc[r] = "scale"
    /\ Fallback(r, spawned)
    /\ current_size' = NewSize(cur[r])
    /\ UNCHANGED <<ring, max_size, permits, permit, relCount>>
    /\ UNCHANGED detailVars

\* The scale-up branch, spawn failed: the error is logged and acquire falls
\* through to the fallback spawn.
AcquireScaleUpFailed(r, spawned) ==
    /\ pc[r] = "scale"
    /\ Fallback(r, spawned)
    /\ UNCHANGED <<ring, current_size, max_size, permits, permit, relCount>>
    /\ UNCHANGED detailVars

\* TabGuard::drop: self.tab.close(true); a failing close is only logged.
DropTabGuard(r) ==
    /\ tab' = [tab EXCEPT ![r] = "closed"]
    /\ UNCHANGED <<poolVars, inst, relCount>>

\* A pool guard whose drop forgets to release.
DropPoolGuardLeak(r) ==
    /\ inst[r] # NoInst
    /\ UNCHANGED <<poolVars, inst, relCount, tab>>

\* BrowserPoolGuard::drop -> BrowserPool::release(instance.take()):
\* pushed when the probe succeeds and the ring has room, dropped otherwise.
DropPoolGuard(r) ==
    /\ inst[r] # NoInst
    /\ inst' = [inst EXCEPT ![r] = NoInst]
    /\ relCount' = [relCount EXCEPT ![r] = @ + 1]
    /\ \E healthy \in BOOLEAN :
          /\ ring' = ReleaseRing(ring, inst[r], healthy)
          /\ live' = IF Len(ring') > Len(ring) THEN live ELSE live - 1
    /\ UNCHANGED <<current_size, max_size, tab>>

\* Leaving render_sync: the live guards are dropped one by one; after the last
\* one the worker is done.
Unwind(r) ==
    /\ pc[r] = "leave"
    /\ guards' = [guards EXCEPT ![r] = DropStep(guards[r]).rest]
    /\ IF DropStep(guards[r]).guard = "tab" THEN DropTabGuard(r) ELSE DropPoolGuard(r)
    /\ pc' = [pc EXCEPT ![r] = IF guards'[r] = <<>> THEN "finished" ELSE "leave"]
    /\ UNCHANGED <<permits, permit, cur, acquired>>
    /\ UNCHANGED detailVars

\* A step of request r whose caller keeps awaiting the render future, in an
\* environment where every BrowserInstance::new inside acquire succeeds.
Serve(r) ==
    \/ Submit(r)
    \/ AcquirePermit(r)
    \/ Complete(r)
    \/ Start(r)
    \/ AcquireReadSize(r)
    \/ AcquireReadLenScale(r)
    \/ AcquireReadLenFallback(r, TRUE)
    \/ AcquireScaleUp(r)
    \/ Unwind(r)

\* A step of request r in which a BrowserInstance::new inside acquire fails.
SpawnFails(r) ==
    \/ AcquireReadLenFallback(r, FALSE)
    \/ \E spawned \in BOOLEAN : AcquireScaleUpFailed(r, spawned)

\* The caller of request r drops the render future.
Cancel(r) ==
    \/ CancelWaiting(r)
    \/ CancelRunning(r)

\* The engine under any callers and any browser behaviour.
Next == \E r \in Reqs : Serve(r) \/ SpawnFails(r) \/ Cancel(r)

Spec == Init /\ [][Next]_vars

\* The engine when every caller awaits its response.
NextAwaited == \E r \in Reqs : Serve(r) \/ SpawnFails(r)

SpecAwaited == Init /\ [][NextAwaited]_vars

\* The engine when every browser spawn inside acquire succeeds.
NextSpawnsOk == \E r \in Reqs : Serve(r) \/ Cancel(r)

SpecSpawnsOk == Init /\ [][NextSpawnsOk]_vars

\* RenderingEngine::health_check: the snapshot GET /health is computed from.
HealthStatus ==
    [pool_size |-> current_size,
     total_capacity |-> max_size,
     available_permits |-> permits,
     max_concurrent |-> MAX_CONCURRENT_RENDERS]

\* A step of the blocking worker of request r: the thread pool runs it and
\* every browser call in it returns.
WorkerStep(r) ==
    \/ Start(r)
    \/ AcquireReadSize(r)
    \/ AcquireReadLenScale(r)
    \/ \E spawned \in BOOLEAN : AcquireReadLenFallback(r, spawned)
    \/ AcquireScaleUp(r)
    \/ \E spawned \in BOOLEAN : AcquireScaleUpFailed(r, spawned)
    \/ Unwind(r)

\* The engine with awaiting callers under a fair scheduler: a worker that can
\* step does, a finished render is taken by its future, and the semaphore,
\* which tokio queues first-in first-out, does not pass a waiter by for ever.
SpecFair ==
    /\ SpecAwaited
    /\ \A r \in Reqs : WF_vars(WorkerStep(r))
    /\ \A r \in Reqs : WF_vars(Complete(r))
    /\ \A r \in Reqs : SF_vars(AcquirePermit(r))

\* ---- RenderingEngine::wait_for_render_ready ---------------------------------
\* A JavaScript value of the page is a pair <<type, text>>.
ReadyVals == {<<"bool", "false">>, <<"bool", "true">>, <<"str", "true">>}
ErrorVals == {<<"null", "null">>, <<"str", "boom">>, <<"str", "">>, <<"num", "7">>}

\* Values of the two optional request fields the function reads.
PollIntervals == {{}, {50}}
RenderDelays == {{}, {0}, {500}}

\* Option::unwrap_or
UnwrapOr(opt, default) == IF opt = {} THEN default ELSE CHOOSE v \in opt : TRUE

\* tab.evaluate("window.renderReady === true").value.and_then(as_bool)
\*    .unwrap_or(false): strict equality with the boolean true.
ReadyIsTrue(v) == v = <<"bool", "true">>

\* A conversion that never finds a string.
AsStrNone(v) == {}

\* .value.and_then(|v| v.as_str().map(String::from)): Some(text) for a
\* JavaScript string (the empty one included), None for anything else.
AsStr(v) == IF v[1] = "str" THEN {v[2]} ELSE {}

\* A loop that also runs when attempts has reached the maximum.
LoopCondInclusive(a) == a <= MAX_ATTEMPTS

\* while attempts < MAX_ATTEMPTS
LoopCond(a) == a < MAX_ATTEMPTS

\* let poll_interval = Duration::from_millis(
\*     request.options.poll_interval_ms.unwrap_or(POLL_INTERVAL_MS));
PollInterval == UnwrapOr(poll_interval_ms, POLL_INTERVAL_MS)

\* let render_delay = Duration::from_millis(
\*     request.options.poll_interval_ms.unwrap_or(POLL_INTERVAL_MS));
RenderDelay == UnwrapOr(poll_interval_ms, POLL_INTERVAL_MS)

\* A call of wait_for_render_ready on a freshly navigated page: the composed
\* HTML starts with window.renderReady = false; window.renderError = null.
InitReady ==
    /\ EngineAside
    /\ poll_interval_ms \in PollIntervals
    /\ render_delay_ms \in RenderDelays
    /\ renderReady = <<"bool", "false">>
    /\ renderError = <<"null", "null">>
    /\ attempts = 0
    /\ wpc = "loop"
    /\ wresult = <<"none">>
    /\ polls = 0
    /\ sleeps = <<>>
    /\ NoCompose
    /\ NoBase64
    /\ NoLater

\* wait_for_render_ready returns res.
WaitReturn(res) ==
    /\ wresult' = res
    /\ wpc' = "returned"

\* The code after the loop: the timeout error when attempts >= MAX_ATTEMPTS,
\* else sleep(render_delay) and Ok(()).
AfterLoop ==
    IF attempts >= MAX_ATTEMPTS
    THEN /\ WaitReturn(<<"timeout", "Timeout waiting for render to complete after 50 attempts">>)
         /\ UNCHANGED sleeps
    ELSE /\ sleeps' = Append(sleeps, RenderDelay)
         /\ WaitReturn(<<"ok">>)

\* The page's scripts run: the init script or its catch block (or anything the
\* embedded data made of them) assigns the two globals.
PageSets(rv, ev) ==
    /\ wpc \in {"loop", "error"}
    /\ <<rv, ev>> # <<renderReady, renderError>>
    /\ renderReady' = rv
    /\ renderError' = ev
    /\ UNCHANGED <<engineVars, composeVars, base64Vars, laterVars, poll_interval_ms, render_delay_ms, attempts, wpc,
                   wresult, polls, sleeps>>

\* A loop head that looks at window.renderError before window.renderReady.
WaitCheckReadyErrorFirst ==
    /\ wpc = "loop"
    /\ LoopCond(attempts)
    /\ polls' = polls + 1
    /\ \/ /\ AsStr(renderError) # {}
          /\ WaitReturn(<<"init_failed", "Render initialization failed: ",
                          UnwrapOr(AsStr(renderError), "")>>)
          /\ UNCHANGED sleeps
       \/ /\ AsStr(renderError) = {}
          /\ ReadyIsTrue(renderReady)
          /\ AfterLoop
       \/ /\ AsStr(renderError) = {}
          /\ ~ReadyIsTrue(renderReady)
          /\ wpc' = "error"
          /\ UNCHANGED <<wresult, sleeps>>
    /\ UNCHANGED <<engineVars, composeVars, base64Vars, laterVars, poll_interval_ms, render_delay_ms, renderReady,
                   renderError, attempts>>

\* One pass of the loop head: the loop test and the evaluation of
\* "window.renderReady === true"; `break` when it is true.
WaitCheckReady ==
    /\ wpc = "loop"
    /\ LoopCond(attempts)
    /\ polls' = polls + 1
    /\ \/ /\ WaitReturn(<<"eval_error">>)                 \* evaluate(..)? failed
          /\ UNCHANGED sleeps
       \/ /\ ReadyIsTrue(renderReady)                     \* break
          /\ AfterLoop
       \/ /\ ~ReadyIsTrue(renderReady)
          /\ wpc' = "error"
          /\ UNCHANGED <<wresult, sleeps>>
    /\ UNCHANGED <<engineVars, composeVars, base64Vars, laterVars, poll_interval_ms, render_delay_ms, renderReady,
                   renderError, attempts>>

\* The rest of the loop body: the evaluation of "window.renderError", the early
\* return on a string, else sleep(poll_interval); attempts += 1.
WaitCheckError ==
    /\ wpc = "error"
    /\ \/ /\ WaitReturn(<<"eval_error">>)                 \* evaluate(..)? failed
          /\ UNCHANGED <<sleeps, attempts>>
       \/ /\ AsStr(renderError) # {}
          /\ WaitReturn(<<"init_failed", "Render initialization failed: ",
                          UnwrapOr(AsStr(renderError), "")>>)
          /\ UNCHANGED <<sleeps, attempts>>
       \/ /\ AsStr(renderError) = {}
          /\ sleeps' = Append(sleeps, PollInterval)
          /\ attempts' = attempts + 1
          /\ wpc' = "loop"
          /\ UNCHANGED wresult
    /\ UNCHANGED <<engineVars, composeVars, base64Vars, laterVars, poll_interval_ms, render_delay_ms, renderReady,
                   renderError, polls>>

\* The loop test fails: control falls out of the loop.
WaitLoopExit ==
    /\ wpc = "loop"
    /\ ~LoopCond(attempts)
    /\ AfterLoop
    /\ UNCHANGED <<engineVars, composeVars, base64Vars, laterVars, poll_interval_ms, render_delay_ms, renderReady,
                   renderError, attempts, polls>>

NextReady ==
    \/ \E rv \in ReadyVals, ev \in ErrorVals : PageSets(rv, ev)
    \/ WaitCheckReady
    \/ WaitCheckError
    \/ WaitLoopExit

\* One call of wait_for_render_ready against a page that does anything.
SpecReady == InitReady /\ [][NextReady]_vars

\* ---- template::generate_html ---------------------------------------------
\* Text is a sequence of characters; "backtick" stands for the grave accent and
\* "</script>" for that run of characters, which nothing in the code looks into.
Chars == {"a", "'", "\"", "backtick", "\\", "\n", "$", "{", "</script>"}

RECURSIVE SeqsUpTo(_, _)
SeqsUpTo(S, n) ==
    IF n = 0 THEN {<<>>}
    ELSE LET shorter == SeqsUpTo(S, n - 1) IN
         shorter \cup {Append(t, c) : t \in shorter, c \in S}

\* request.data: a JSON string value.
DataStrings == SeqsUpTo(Chars, MaxDataLen)

\* A URL text, by the parts a URL parser would find in it (no scheme: it does
\* not parse).
Url(scheme, host, path) == [scheme |-> scheme, host |-> host, path |-> path]

\* Values of request.library.cdn_url.
CdnInputs ==
    { {},
      {Url("https", "cdn.jsdelivr.net", <<"/npm/x.js">>)},
      {Url("https", "unpkg.com", <<"/x.js">>)},
      {Url("http", "cdn.jsdelivr.net", <<"/npm/x.js">>)},
      {Url("https", "evil.example", <<"/x.js">>)},
      {Url("javascript", "", <<"alert(1)">>)},
      {Url("", "", <<"not a url">>)} }

\* Values of request.library.name.
LibraryNames == {"apache-echarts", "chartjs", "konvajs", "konvajs-json",
                 "solidjs-node", "d3"}

\* The keys of LIBRARY_REGISTRY.
Registry == {"apache-echarts", "chartjs", "konvajs", "konvajs-json"}

\* LibraryTemplate.cdn_url of a registry entry.
TemplateCdn(name) ==
    CASE name = "apache-echarts" ->
            Url("https", "cdn.jsdelivr.net", <<"/npm/echarts@", "{version}", "/dist/echarts.min.js">>)
      [] name = "chartjs" ->
            Url("https", "cdn.jsdelivr.net", <<"/npm/chart.js@", "{version}", "/dist/chart.umd.js">>)
      [] OTHER ->
            Url("https", "unpkg.com", <<"/konva@", "{version}", "/konva.min.js">>)

\* .replace("{version}", &request.library.version)
ReplaceVersion(u, version) ==
    [u EXCEPT !.path = [i \in 1..Len(@) |-> IF @[i] = "{version}" THEN version ELSE @[i]]]

RECURSIVE Flatten(_)
Flatten(ss) == IF ss = <<>> THEN <<>> ELSE Head(ss) \o Flatten(Tail(ss))

\* str::replace of one character by a text.
ReplaceChar(t, c, by) == Flatten([i \in 1..Len(t) |-> IF t[i] = c THEN by ELSE <<t[i]>>])

\* str::replace("${", "\\${"): every non-overlapping "${", left to right.
RECURSIVE ReplaceDollarBrace(_)
ReplaceDollarBrace(t) ==
    IF Len(t) < 2 THEN t
    ELSE IF t[1] = "$" /\ t[2] = "{"
         THEN <<"\\", "$", "{">> \o ReplaceDollarBrace(SubSeq(t, 3, Len(t)))
         ELSE <<t[1]>> \o ReplaceDollarBrace(Tail(t))

\* serde_json::to_string of a JSON string: quoted, with the quote, the
\* backslash and the control characters escaped.
JsonToString(str) ==
    <<"\"">>
    \o Flatten([i \in 1..Len(str) |->
                  CASE str[i] = "\"" -> <<"\\", "\"">>
                    [] str[i] = "\\" -> <<"\\", "\\">>
                    [] str[i] = "\n" -> <<"\\", "n">>
                    [] OTHER -> <<str[i]>>])
    \o <<"\"">>

\* The three chained str::replace calls on data_json: a backslash before
\* every backslash, then before every backtick, then before every dollar-brace.
EscapeData(data_json) ==
    ReplaceDollarBrace(
        ReplaceChar(ReplaceChar(data_json, "\\", <<"\\", "\\">>), "backtick", <<"\\", "backtick">>))

\* Data that spells the placeholders of the init scripts; here "{width}",
\* "{height}" and "{data}" each stand for that run of characters.
TokenStrings == SeqsUpTo({"a", "{width}", "{height}", "{data}"}, MaxDataLen)

\* request.options.width.to_string() and request.options.height.to_string()
WidthText == <<"800">>
HeightText == <<"600">>

\* LibraryTemplate.init_script of a registry entry: its placeholders in their
\* order, the code between them as one piece each.
TemplateInitScript(name) ==
    CASE name = "apache-echarts" -> <<"chart.setOption(", "{data}", ");">>
      [] name = "chartjs" -> <<"new Chart(ctx, ", "{data}", ");">>
      [] name = "konvajs" ->
            <<"Konva.Stage({width: ", "{width}", ", height: ", "{height}", "});",
              "const config = ", "{data}", ";">>
      [] OTHER ->
            <<"const konvaJson = ", "{data}", ";", "stage.width(", "{width}", ");",
              "stage.height(", "{height}", ");">>

\* library_template.init_script.replace("{data}", &data_json_escaped)
\*     .replace("{width}", ..).replace("{height}", ..): each replace runs over
\* the whole text the one before it produced.
InitScript(template, data_text, width, height) ==
    ReplaceChar(ReplaceChar(ReplaceChar(template, "{data}", data_text),
                            "{width}", width),
                "{height}", height)

\* generate_html for a library of the registry: the URL that goes into
\* <script src="{}">, the text that replaces {data} in the init script, and
\* the init script of the page.
ComposePage(req) ==
    [script_src |-> IF req.cdn_url = {}
                    THEN ReplaceVersion(TemplateCdn(req.name), req.version)
                    ELSE CHOOSE u \in req.cdn_url : TRUE,
     data_text |-> EscapeData(JsonToString(req.data)),
     init_script |-> InitScript(TemplateInitScript(req.name),
                                EscapeData(JsonToString(req.data)),
                                WidthText, HeightText)]

\* A call of generate_html with some request.
InitCompose ==
    /\ EngineAside
    /\ NoWait
    /\ NoBase64
    /\ NoLater
    /\ request \in [name : LibraryNames, version : {"5.4.3"}, cdn_url : CdnInputs,
                    data : DataStrings \cup TokenStrings, format : {"png"}]
    /\ html = <<"none">>

\* generate_html for "solidjs-node": generate_html_nodejs hands the request to
\* a node process and returns what that prints, or an error.
GenerateHtmlNodejs(ok) ==
    /\ html = <<"none">>
    /\ request.name = "solidjs-node"
    /\ html' = IF ok THEN <<"ok_node">> ELSE <<"err", "Node.js rendering failed">>
    /\ UNCHANGED <<engineVars, waitVars, base64Vars, laterVars, request>>

\* generate_html for any other library name.
GenerateHtml ==
    /\ html = <<"none">>
    /\ request.name # "solidjs-node"
    /\ html' = IF request.name \notin Registry
               THEN <<"err", "Unsupported library">>
               ELSE <<"ok", ComposePage(request)>>
    /\ UNCHANGED <<engineVars, waitVars, base64Vars, laterVars, request>>

NextCompose ==
    \/ \E ok \in BOOLEAN : GenerateHtmlNodejs(ok)
    \/ GenerateHtml

\* One call of generate_html with any request.
SpecCompose == InitCompose /\ [][NextCompose]_vars

\* ---- RenderingEngine::render_base64 ---------------------------------------
\* Values of request.options.format.
Formats == {"png", "jpeg", "jpg", "pdf", "gif", "webp", "PNG", ""}

\* What render can return as the captured bytes.
ByteStrings == {<<137, 80>>, <<255>>}

\* The arms of capture_screenshot's match that capture; any other format is
\* its "Unsupported format" error, which render passes on.
CaptureSupported(format) == format \in {"png", "jpeg", "jpg", "pdf"}

\* A mapping that knows png only.
MimeTypePngOnly(format) ==
    IF format = "png" THEN "image/png" ELSE "application/octet-stream"

\* let mime_type = match request.options.format.as_str() { .. }
MimeType(format) ==
    CASE format = "png" -> "image/png"
      [] format \in {"jpeg", "jpg"} -> "image/jpeg"
      [] format = "pdf" -> "application/pdf"
      [] OTHER -> "application/octet-stream"

\* general_purpose::STANDARD.encode(&result)
Base64Encode(bytes) == <<"base64", bytes>>

\* Calls of render_base64, one after the other.
InitBase64 ==
    /\ EngineAside
    /\ NoWait
    /\ html = <<"none">>
    /\ request \in [name : {"chartjs"}, version : {"5.4.3"}, cdn_url : {{}},
                    data : {<<>>}, format : Formats]
    /\ NoBase64
    /\ NoLater

\* self.render(request.clone()).await? fails: render_base64 returns the error.
RenderBase64Err ==
    /\ response = <<"none">>
    /\ response' = <<"err">>
    /\ UNCHANGED <<engineVars, waitVars, laterVars, request, html, responses>>

\* self.render(request.clone()).await? gives the bytes: the response carries
\* their encoding and the mime type matched from the format.
RenderBase64Ok(bytes) ==
    /\ response = <<"none">>
    /\ CaptureSupported(request.format)
    /\ response' = <<"ok", [data |-> Base64Encode(bytes),
                            mime_type |-> MimeType(request.format)]>>
    /\ responses' = responses \cup {<<request.format, MimeType(request.format)>>}
    /\ UNCHANGED <<engineVars, waitVars, laterVars, request, html>>

\* The next call, with any format.
NextRequest(format) ==
    /\ response # <<"none">>
    /\ request' = [request EXCEPT !.format = format]
    /\ response' = <<"none">>
    /\ UNCHANGED <<engineVars, waitVars, laterVars, html, responses>>

NextBase64 ==
    \/ RenderBase64Err
    \/ \E bytes \in ByteStrings : RenderBase64Ok(bytes)
    \/ \E format \in Formats : NextRequest(format)

SpecBase64 == InitBase64 /\ [][NextBase64]_vars

\* ---- BrowserPool::release ------------------------------------------------
\* The rings release can find: up to max_size idle instances of either kind.
RingsUpTo(n) == SeqsUpTo(Kinds, n)

\* No render is in flight: every permit is in the semaphore.
NoRequests ==
    /\ permits = MaxConcurrent
    /\ pc = [r \in Reqs |-> "idle"]
    /\ permit = [r \in Reqs |-> FALSE]
    /\ cur = [r \in Reqs |-> 0]
    /\ inst = [r \in Reqs |-> NoInst]
    /\ tab = [r \in Reqs |-> "none"]
    /\ guards = [r \in Reqs |-> <<>>]
    /\ acquired = [r \in Reqs |-> FALSE]
    /\ relCount = [r \in Reqs |-> 0]
    /\ dropped = [r \in Reqs |-> FALSE]

\* A call of release(instance) on a pool in any state it can be in, the probe
\* answering either way: the ring holds up to max_size idle instances, and the
\* instance being released is one more live browser.
InitRelease ==
    /\ max_size \in 1..MaxSize
    /\ current_size \in 1..max_size
    /\ \E q \in RingsUpTo(MaxSize) :
          /\ Len(q) <= max_size
          /\ ring = q
          /\ live = Len(q) + 1
          /\ rel \in [instance : Kinds, healthy : BOOLEAN, before : {q}, done : {FALSE}]
    /\ NoRequests
    /\ NoWait
    /\ NoCompose
    /\ NoBase64
    /\ NoPipeline
    /\ NoRoute
    /\ NoNew
    /\ NoSingle

\* release runs from its first to its last line: nothing in it waits. The
\* instance is pushed, or dropped when the function returns.
Release ==
    /\ ~rel.done
    /\ ring' = ReleaseRing(ring, rel.instance, rel.healthy)
    /\ live' = IF Len(ring') > Len(ring) THEN live ELSE live - 1
    /\ rel' = [rel EXCEPT !.done = TRUE]
    /\ UNCHANGED <<current_size, max_size, permits, pc, permit, cur, inst, tab,
                   guards, acquired, relCount, dropped>>
    /\ UNCHANGED <<waitVars, composeVars, base64Vars, pipeVars, routeVars, newVars, singleVars>>

NextRelease == Release

SpecRelease == InitRelease /\ [][NextRelease]_vars

\* ---- RenderingEngine::render, step by step ---------------------------------
\* The request whose render is followed.
P == 1

\* The steps of render and render_sync that can fail, in the order of the code.
StepOrder == <<"permit", "compose", "acquire", "new_tab", "set_bounds",
               "override", "navigate", "lookup", "wait_selector",
               "wait_ready", "capture">>

\* What runs when the scopes of render_sync and render are left.
CleanupSteps == {"close_tab", "release", "drop_permit"}

\* The steps that are calls on the tab and fail only if the browser does.
TabSteps == {"set_bounds", "override", "navigate", "wait_selector", "wait_ready"}

\* Values of request.options.device_scale_factor.
ScaleFactors == {{}, {1}, {2}}

StepIndex(step) == CHOOSE i \in DOMAIN StepOrder : StepOrder[i] = step

\* A render that carries on after a step failed.
NextStageKeepsGoing(step, ok, scale_factor) ==
    IF step = "capture" THEN "unwind"
    ELSE IF step = "set_bounds" /\ scale_factor = 1 THEN "navigate"
    ELSE StepOrder[StepIndex(step) + 1]

\* Where render goes after a step: `?` returns at the first error, which
\* leaves the scope; `if scale_factor != 1.0` guards the override; after the
\* capture render_sync returns.
NextStage(step, ok, scale_factor) ==
    IF ~ok THEN "unwind"
    ELSE IF step = "capture" THEN "unwind"
    ELSE IF step = "set_bounds" /\ scale_factor = 1 THEN "navigate"
    ELSE StepOrder[StepIndex(step) + 1]

\* What generate_html can return for a request.
GenerateHtmlResults(req) ==
    IF req.name = "solidjs-node"
    THEN {<<"ok_node">>, <<"err", "Node.js rendering failed">>}
    ELSE IF req.name \notin Registry
         THEN {<<"err", "Unsupported library">>}
         ELSE {<<"ok", ComposePage(req)>>}

\* The step has run: it is on the trace and render is at its next stage.
Ran(step, ok, error) ==
    /\ trace' = Append(trace, [step |-> step, ok |-> ok])
    /\ stage' = NextStage(step, ok, UnwrapOr(device_scale_factor, 1))
    /\ outcome' = IF ok THEN outcome ELSE error

\* One call of render on a fresh engine, with any library name, a format that
\* captures and one that does not, and any device scale factor.
InitPipeline ==
    /\ InitEngine
    /\ NoWait
    /\ NoBase64
    /\ NoRelease
    /\ NoRoute
    /\ NoNew
    /\ NoSingle
    /\ request \in [name : LibraryNames, version : {"5.4.3"}, cdn_url : {{}},
                    data : {<<>>}, format : {"png", "gif"}]
    /\ html = <<"none">>
    /\ stage = "permit"
    /\ trace = <<>>
    /\ outcome = "none"
    /\ device_scale_factor \in ScaleFactors

\* self.render_semaphore.acquire().await: the semaphore is never closed.
PipePermit ==
    /\ stage = "permit"
    /\ permits > 0
    /\ permits' = permits - 1
    /\ permit' = [permit EXCEPT ![P] = TRUE]
    /\ Ran("permit", TRUE, "")
    /\ UNCHANGED <<poolVars, pc, reqLocals, dropped, device_scale_factor>>
    /\ UNCHANGED <<waitVars, composeVars, base64Vars, releaseVars, routeVars, newVars, singleVars>>

\* let html = template::generate_html(request)?;
PipeCompose ==
    /\ stage = "compose"
    /\ \E h \in GenerateHtmlResults(request) :
          /\ html' = h
          /\ Ran("compose", h[1] # "err", IF h[1] = "err" THEN h[2] ELSE "")
    /\ UNCHANGED <<engineVars, device_scale_factor, request>>
    /\ UNCHANGED <<waitVars, base64Vars, releaseVars, routeVars, newVars, singleVars>>

\* let browser_instance = self.browser_pool.acquire()?; with one request in
\* flight nothing interleaves with acquire, so it is one step: the popped
\* instance if it is healthy; else the scale-up spawn if should_scale; else,
\* or if that spawn failed, the fallback spawn. _pool_guard is declared next.
PipeAcquire(healthy, scaled, spawned) ==
    /\ stage = "acquire"
    /\ LET popped == ring # <<>>
           rest == IF popped THEN PopRest(ring) ELSE ring
           kept == IF popped /\ ~healthy THEN DiscardUnhealthy(rest, Head(ring)) ELSE rest
           alive == IF popped /\ ~healthy THEN live - 1 ELSE live
           got == IF popped /\ healthy THEN Head(ring)
                  ELSE IF ShouldScale(Len(kept), current_size) /\ scaled THEN "member"
                  ELSE IF spawned THEN "temp"
                  ELSE NoInst
       IN  /\ ring' = kept
           /\ live' = IF (popped /\ healthy) \/ got = NoInst THEN alive ELSE alive + 1
           /\ current_size' = IF ~(popped /\ healthy) /\ got = "member"
                              THEN NewSize(current_size) ELSE current_size
           /\ inst' = [inst EXCEPT ![P] = got]
           /\ acquired' = [acquired EXCEPT ![P] = got # NoInst]
           /\ guards' = [guards EXCEPT ![P] = IF got # NoInst THEN <<"pool">> ELSE @]
           /\ Ran("acquire", got # NoInst, "Failed to create browser")
    /\ UNCHANGED <<max_size, permits, pc, permit, cur, tab, relCount, dropped,
                   device_scale_factor>>
    /\ UNCHANGED <<waitVars, composeVars, base64Vars, releaseVars, routeVars, newVars, singleVars>>

\* let tab = browser_instance.new_tab()?; let tab_guard = TabGuard::new(tab);
PipeNewTab(ok) ==
    /\ stage = "new_tab"
    /\ tab' = [tab EXCEPT ![P] = IF ok THEN "open" ELSE @]
    /\ guards' = [guards EXCEPT ![P] = IF ok THEN Append(@, "tab") ELSE @]
    /\ Ran("new_tab", ok, "Failed to create tab")
    /\ UNCHANGED <<poolVars, permits, pc, permit, cur, inst, acquired, relCount,
                   dropped, device_scale_factor>>
    /\ UNCHANGED <<waitVars, composeVars, base64Vars, releaseVars, routeVars, newVars, singleVars>>

\* tab.set_bounds(..)?, tab.call_method(SetDeviceMetricsOverride ..)?,
\* tab.navigate_to(..)?, tab.wait_for_element_with_custom_timeout(..)?,
\* self.wait_for_render_ready(tab, request)?
PipeTabStep(ok) ==
    /\ stage \in TabSteps
    /\ Ran(stage, ok, "tab error")
    /\ UNCHANGED <<engineVars, device_scale_factor>>
    /\ UNCHANGED <<waitVars, composeVars, base64Vars, releaseVars, routeVars, newVars, singleVars>>

\* LIBRARY_REGISTRY.get(&request.library.name).ok_or_else(..)?
PipeLookup ==
    /\ stage = "lookup"
    /\ Ran("lookup", request.name \in Registry, "Unsupported library")
    /\ UNCHANGED <<engineVars, device_scale_factor>>
    /\ UNCHANGED <<waitVars, composeVars, base64Vars, releaseVars, routeVars, newVars, singleVars>>

\* let result = self.capture_screenshot(tab, request)?; Ok(result)
PipeCapture(ok) ==
    /\ stage = "capture"
    /\ trace' = Append(trace, [step |-> "capture", ok |-> ok /\ CaptureSupported(request.format)])
    /\ stage' = NextStage("capture", ok /\ CaptureSupported(request.format),
                          UnwrapOr(device_scale_factor, 1))
    /\ outcome' = IF ~CaptureSupported(request.format) THEN "Unsupported format"
                  ELSE IF ok THEN "ok" ELSE "tab error"
    /\ UNCHANGED <<engineVars, device_scale_factor>>
    /\ UNCHANGED <<waitVars, composeVars, base64Vars, releaseVars, routeVars, newVars, singleVars>>

\* render_sync returns: the guard dropped next is tab_guard, whose drop closes
\* the tab.
PipeCloseTab ==
    /\ stage = "unwind"
    /\ guards[P] # <<>>
    /\ DropStep(guards[P]).guard = "tab"
    /\ guards' = [guards EXCEPT ![P] = DropStep(@).rest]
    /\ tab' = [tab EXCEPT ![P] = "closed"]
    /\ trace' = Append(trace, [step |-> "close_tab", ok |-> TRUE])
    /\ UNCHANGED <<poolVars, permits, pc, permit, cur, inst, acquired, relCount,
                   dropped, stage, outcome, device_scale_factor>>
    /\ UNCHANGED <<waitVars, composeVars, base64Vars, releaseVars, routeVars, newVars, singleVars>>

\* render_sync returns: the guard dropped next is _pool_guard, whose drop calls
\* release on the instance.
PipeRelease(healthy) ==
    /\ stage = "unwind"
    /\ guards[P] # <<>>
    /\ DropStep(guards[P]).guard = "pool"
    /\ guards' = [guards EXCEPT ![P] = DropStep(@).rest]
    /\ ring' = ReleaseRing(ring, inst[P], healthy)
    /\ live' = IF Len(ring') > Len(ring) THEN live ELSE live - 1
    /\ inst' = [inst EXCEPT ![P] = NoInst]
    /\ relCount' = [relCount EXCEPT ![P] = @ + 1]
    /\ trace' = Append(trace, [step |-> "release", ok |-> TRUE])
    /\ UNCHANGED <<current_size, max_size, permits, pc, permit, cur, tab,
                   acquired, dropped, stage, outcome, device_scale_factor>>
    /\ UNCHANGED <<waitVars, composeVars, base64Vars, releaseVars, routeVars, newVars, singleVars>>

\* render returns what render_sync returned; _permit is dropped on the way.
PipeDropPermit ==
    /\ stage = "unwind"
    /\ guards[P] = <<>>
    /\ permits' = permits + 1
    /\ permit' = [permit EXCEPT ![P] = FALSE]
    /\ stage' = "done"
    /\ trace' = Append(trace, [step |-> "drop_permit", ok |-> TRUE])
    /\ UNCHANGED <<poolVars, pc, reqLocals, dropped, outcome, device_scale_factor>>
    /\ UNCHANGED <<waitVars, composeVars, base64Vars, releaseVars, routeVars, newVars, singleVars>>

NextPipeline ==
    \/ PipePermit
    \/ PipeCompose
    \/ \E healthy, scaled, spawned \in BOOLEAN : PipeAcquire(healthy, scaled, spawned)
    \/ \E ok \in BOOLEAN : PipeNewTab(ok)
    \/ \E ok \in BOOLEAN : PipeTabStep(ok)
    \/ PipeLookup
    \/ \E ok \in BOOLEAN : PipeCapture(ok)
    \/ PipeCloseTab
    \/ \E healthy \in BOOLEAN : PipeRelease(healthy)
    \/ PipeDropPermit

SpecPipeline == InitPipeline /\ [][NextPipeline]_vars

\* ---- POST /render --------------------------------------------------------
\* Values of request.options.return_base64.
ReturnBase64s == {{}, {TRUE}, {FALSE}}

\* The errors render and render_base64 can return.
EngineErrors == {"Unsupported library", "Unsupported format",
                 "Failed to create browser", "tab error",
                 "Node.js rendering failed"}

\* What the engine can return for the request: the captured bytes if the
\* format captures, or an error; "Unsupported format" only for a format that
\* does not capture.
EngineCanReturn(req, result) ==
    IF result[1] = "ok" THEN CaptureSupported(req.format)
    ELSE result[2] = "Unsupported format" => ~CaptureSupported(req.format)

\* A detail string that does not say what failed.
DetailWithoutCause(filepath, function, identifier, err) ==
    <<"error: on ", filepath, "::", function, " iden: ", identifier>>

\* InternalServerErrorResponse::new: format!("error: on {}::{} iden: {} error: {}", ..)
\* as the pieces the string is made of.
InternalServerErrorDetail(filepath, function, identifier, err) ==
    <<"error: on ", filepath, "::", function, " iden: ", identifier, " error: ", err>>

\* RenderResponse::InternalServerError(Json(InternalServerErrorResponse::new(..)))
InternalServerError(err) ==
    [status |-> 500, content_type |-> "application/json",
     body |-> [detail |-> InternalServerErrorDetail("route.render", "render",
                                                    "Rendering failed", err)]]

\* RenderResponse::Base64(Json(result)), result being what render_base64 made
\* of the bytes.
Base64Answer(req, bytes) ==
    [status |-> 200, content_type |-> "application/json",
     body |-> [data |-> Base64Encode(bytes), mime_type |-> MimeType(req.format)]]

\* RenderResponse::Binary(Attachment::new(result))
BinaryAnswer(bytes) ==
    [status |-> 200, content_type |-> "application/octet-stream", body |-> bytes]

\* One POST /render with any return_base64 option and any format.
InitRoute ==
    /\ EngineAside
    /\ NoWait
    /\ NoBase64
    /\ NoRelease
    /\ NoPipeline
    /\ NoNew
    /\ NoSingle
    /\ html = <<"none">>
    /\ request \in [name : {"chartjs"}, version : {"5.4.3"}, cdn_url : {{}},
                    data : {<<>>}, format : Formats]
    /\ return_base64 \in ReturnBase64s
    /\ engine_result = <<"none">>
    /\ http = NoAnswer

\* ApiRender::render: render_base64 or render is awaited according to
\* return_base64.unwrap_or(false); an Err of either becomes the 500 answer.
RouteRender(result) ==
    /\ http = NoAnswer
    /\ EngineCanReturn(request, result)
    /\ engine_result' = result
    /\ http' = IF result[1] = "err" THEN InternalServerError(result[2])
               ELSE IF UnwrapOr(return_base64, FALSE)
                    THEN Base64Answer(request, result[2])
                    ELSE BinaryAnswer(result[2])
    /\ UNCHANGED <<engineVars, waitVars, composeVars, base64Vars, releaseVars,
                   pipeVars, newVars, singleVars, return_base64>>

NextRoute ==
    \/ \E bytes \in ByteStrings : RouteRender(<<"ok", bytes>>)
    \/ \E e \in EngineErrors : RouteRender(<<"err", e>>)

SpecRoute == InitRoute /\ [][NextRoute]_vars

\* ---- BrowserPool::new ------------------------------------------------------
\* One call of BrowserPool::new(min_size, max_size, ..) with any sizes: the ring
\* is empty and no browser lives; current_size does not exist before the call
\* returns and is shown as 0.
InitNew ==
    /\ min_size \in 0..MaxMinSize
    /\ max_size \in 1..MaxSize
    /\ new_i = 0
    /\ newpc = "loop"
    /\ ring = <<>>
    /\ current_size = 0
    /\ live = 0
    /\ NoRequests
    /\ NoWait
    /\ NoCompose
    /\ NoBase64
    /\ NoRelease
    /\ NoPipeline
    /\ NoRoute
    /\ NoSingle

\* One round of `for i in 0..min_size`: BrowserInstance::new answers Ok or Err;
\* an Ok instance is pushed, and dropped if the push fails; an Err is logged.
NewSpawn(ok) ==
    /\ newpc = "loop"
    /\ new_i < min_size
    /\ new_i' = new_i + 1
    /\ ring' = IF ok /\ PushOk(ring) THEN Append(ring, "member") ELSE ring
    /\ live' = Len(ring')
    /\ UNCHANGED <<current_size, max_size, permits, pc, permit, cur, inst, tab,
                   guards, acquired, relCount, dropped, min_size, newpc>>
    /\ UNCHANGED <<waitVars, composeVars, base64Vars, releaseVars, pipeVars, routeVars, singleVars>>

\* After the loop: Err if the ring is empty, else Ok with
\* current_size = initial_count = pool.len().
NewReturn ==
    /\ newpc = "loop"
    /\ new_i = min_size
    /\ newpc' = IF Len(ring) = 0 THEN "err" ELSE "ok"
    /\ current_size' = Len(ring)
    /\ UNCHANGED <<ring, live, max_size, permits, pc, permit, cur, inst, tab,
                   guards, acquired, relCount, dropped, min_size, new_i>>
    /\ UNCHANGED <<waitVars, composeVars, base64Vars, releaseVars, pipeVars, routeVars, singleVars>>

NextNew ==
    \/ \E ok \in BOOLEAN : NewSpawn(ok)
    \/ NewReturn

SpecNew == InitNew /\ [][NextNew]_vars

\* ---- the single-browser engine (src/renderer.rs) ----------------------------
\* The calls on the tab between browser.new_tab() and the final tab.close(),
\* each ending in `?` or an early return, in the order of the code.
SingleSteps == <<"set_bounds", "override", "navigate", "lookup",
                 "wait_selector", "wait_ready", "capture">>

\* The error each of them returns with.
SingleError(step) ==
    CASE step = "lookup" -> "Unsupported library"
      [] step = "wait_ready" -> "Render initialization failed or timeout"
      [] step = "capture" -> "Unsupported format or capture error"
      [] OTHER -> "tab error"

\* A render_sync that gives up after the first failure.
AfterGetFailedNoRetry(at) == "done"

\* .or_else(|e| { *self.browser.lock().unwrap() = None;
\*                self.get_or_create_browser() })?: the first failure leads to the
\* clearing of the cache and a second call, the second failure is returned.
AfterGetFailed(at) == IF at = "get1" THEN "clear" ELSE "done"

\* RenderingEngine::new has cached the browser it launched; every thread is
\* about to call render_sync.
InitSingle ==
    /\ EngineAside
    /\ NoWait
    /\ NoCompose
    /\ NoBase64
    /\ NoRelease
    /\ NoPipeline
    /\ NoRoute
    /\ NoNew
    /\ cache = 1
    /\ browsers = 1
    /\ spc = [t \in Threads |-> "compose"]
    /\ sgot = [t \in Threads |-> 0]
    /\ stries = [t \in Threads |-> 0]
    /\ stab = [t \in Threads |-> "none"]
    /\ sresult = [t \in Threads |-> "none"]

SingleRest == <<engineVars, waitVars, composeVars, base64Vars, releaseVars,
                pipeVars, routeVars, newVars>>

\* let html = template::generate_html(request)?;
SingleCompose(t, ok) ==
    /\ spc[t] = "compose"
    /\ spc' = [spc EXCEPT ![t] = IF ok THEN "get1" ELSE "done"]
    /\ sresult' = [sresult EXCEPT ![t] = IF ok THEN @ ELSE "Unsupported library"]
    /\ UNCHANGED <<cache, browsers, sgot, stries, stab, SingleRest>>

\* get_or_create_browser, all of it under the mutex: the cached browser if its
\* test tab opens; else the cache is emptied and Browser::new is called, and
\* its browser is cached and returned, or its error returned.
SingleGet(t, healthy, launched) ==
    /\ spc[t] \in {"get1", "get2"}
    /\ stries' = [stries EXCEPT ![t] = @ + 1]
    /\ IF cache # 0 /\ healthy
       THEN /\ sgot' = [sgot EXCEPT ![t] = cache]
            /\ spc' = [spc EXCEPT ![t] = "new_tab"]
            /\ UNCHANGED <<cache, browsers, sresult>>
       ELSE IF launched
       THEN /\ browsers' = browsers + 1
            /\ cache' = browsers + 1
            /\ sgot' = [sgot EXCEPT ![t] = browsers + 1]
            /\ spc' = [spc EXCEPT ![t] = "new_tab"]
            /\ UNCHANGED sresult
       ELSE /\ cache' = 0
            /\ spc' = [spc EXCEPT ![t] = AfterGetFailed(spc[t])]
            /\ sresult' = [sresult EXCEPT ![t] =
                              IF AfterGetFailed(spc[t]) = "done"
                              THEN "Failed to launch browser" ELSE @]
            /\ UNCHANGED <<browsers, sgot>>
    /\ UNCHANGED <<stab, SingleRest>>

\* *self.browser.lock().unwrap() = None; in the or_else closure
SingleClear(t) ==
    /\ spc[t] = "clear"
    /\ cache' = 0
    /\ spc' = [spc EXCEPT ![t] = "get2"]
    /\ UNCHANGED <<browsers, sgot, stries, stab, sresult, SingleRest>>

\* let tab = browser.new_tab()?;
SingleNewTab(t, ok) ==
    /\ spc[t] = "new_tab"
    /\ stab' = [stab EXCEPT ![t] = IF ok THEN "open" ELSE @]
    /\ spc' = [spc EXCEPT ![t] = IF ok THEN "set_bounds" ELSE "done"]
    /\ sresult' = [sresult EXCEPT ![t] = IF ok THEN @ ELSE "Failed to create tab"]
    /\ UNCHANGED <<cache, browsers, sgot, stries, SingleRest>>

\* One of the calls on the tab: on an error render_sync returns at once; the
\* override is called only if scale_factor != 1.0; after the capture comes
\* the close.
SingleTabStep(t, ok, scaled) ==
    /\ \E i \in DOMAIN SingleSteps :
          /\ spc[t] = SingleSteps[i]
          /\ spc' = [spc EXCEPT ![t] =
                        IF ~ok THEN "done"
                        ELSE IF i = Len(SingleSteps) THEN "close"
                        ELSE IF SingleSteps[i] = "set_bounds" /\ ~scaled THEN "navigate"
                        ELSE SingleSteps[i + 1]]
          /\ sresult' = [sresult EXCEPT ![t] = IF ok THEN @ ELSE SingleError(SingleSteps[i])]
    /\ UNCHANGED <<cache, browsers, sgot, stries, stab, SingleRest>>

\* let _ = tab.close(true); Ok(result)
SingleClose(t) ==
    /\ spc[t] = "close"
    /\ stab' = [stab EXCEPT ![t] = "closed"]
    /\ spc' = [spc EXCEPT ![t] = "done"]
    /\ sresult' = [sresult EXCEPT ![t] = "ok"]
    /\ UNCHANGED <<cache, browsers, sgot, stries, SingleRest>>

NextSingle ==
    \E t \in Threads :
        \/ \E ok \in BOOLEAN : SingleCompose(t, ok)
        \/ \E healthy, launched \in BOOLEAN : SingleGet(t, healthy, launched)
        \/ SingleClear(t)
        \/ \E ok \in BOOLEAN : SingleNewTab(t, ok)
        \/ \E ok, scaled \in BOOLEAN : SingleTabStep(t, ok, scaled)
        \/ SingleClose(t)

SpecSingle == InitSingle /\ [][NextSingle]_vars

\* ---- the claims ------------------------------------------------------------
Members == Len(SelectSeq(ring, LAMBDA k : k = "member"))
            + Cardinality({r \in Reqs : inst[r] = "member"})

\* C1: every render_sync that got an instance from acquire hands it to release
\* exactly once on every way out (return, error, panic, dropped future), and no
\* request that has ended still has an instance checked out.
C1_ReleasedExactlyOnce ==
    \A r \in Reqs :
        /\ relCount[r] <= 1
        /\ Holds(r) => (Running(r) /\ acquired[r] /\ relCount[r] = 0)
        /\ pc[r] = "finished" => relCount[r] = (IF acquired[r] THEN 1 ELSE 0)
        /\ ~acquired[r] => relCount[r] = 0

\* A worker whose caller dropped the future has finished after acquiring an
\* instance, failing to open a tab, and releasing the instance.
C1_Witness ==
    \E r \in Reqs : /\ pc[r] = "finished" /\ ~permit[r]
                    /\ acquired[r] /\ relCount[r] = 1 /\ tab[r] = "none"

\* C2: a tab opened by render_sync is closed on every way out, and it is closed
\* before its browser instance is released: while the tab is open the instance
\* is still checked out, and a finished worker has no open tab.
C2_TabClosedBeforeRelease ==
    \A r \in Reqs :
        /\ tab[r] = "open" => (Holds(r) /\ relCount[r] = 0)
        /\ pc[r] = "finished" => tab[r] # "open"

\* A worker has closed its tab and still holds its instance; and one has
\* finished with its tab closed and its instance released.
C2_Witness ==
    /\ \E r \in Reqs : pc[r] = "leave" /\ tab[r] = "closed" /\ Holds(r)
    /\ \E r \in Reqs : pc[r] = "finished" /\ tab[r] = "closed" /\ relCount[r] = 1

\* C3: at most max_concurrent requests hold a permit, held + available permits
\* equal the capacity, and with no request in flight every permit is available.
C3_PermitBound ==
    LET held == Cardinality({r \in Reqs : permit[r]}) IN
    /\ held <= MaxConcurrent
    /\ held + permits = MaxConcurrent
    /\ (\A r \in Reqs : pc[r] = "idle") => permits = MaxConcurrent

\* Every permit is taken while a further request waits for one.
C3_Witness ==
    /\ permits = 0
    /\ Cardinality({r \in Reqs : permit[r]}) = MaxConcurrent
    /\ \E r \in Reqs : pc[r] = "waiting"

\* C4: current_size never exceeds max_size and the idle ring never holds more
\* than max_size instances.
C4_PoolBound ==
    /\ current_size <= max_size
    /\ Len(ring) <= max_size

\* The pool has scaled up to max_size > 1 and releases have filled the ring to
\* its capacity.
C4_Witness ==
    /\ max_size > 1
    /\ current_size = max_size
    /\ Len(ring) = max_size
    /\ \E r \in Reqs : relCount[r] = 1

\* C5 (as claimed): current_size is the number of live pool members, idle in the
\* ring or checked out, temporary instances not counted.
C5_SizeCountsMembers == current_size = Members

\* C6 (as claimed): every successful scale-up raises current_size by exactly
\* one, so k of them raise it by k.
C6_ScaleUpAddsOne ==
    [][\A r \in Reqs :
          (pc[r] = "scale" /\ inst'[r] = "member") => current_size' = current_size + 1]_vars

\* C7 (as claimed): a temporary instance is never in the idle ring.
C7_NoTemporaryInRing == \A k \in 1..Len(ring) : ring[k] # "temp"

C9_SizeNeverDecreases == [][current_size' >= current_size]_vars

\* C10: an instance is held by at most one request at a time, is never twice in
\* the ring and never both in the ring and checked out: the ring entries and
\* the checked-out handles are exactly the live browser processes, each once.
C10_EachInstanceOnce == live = Len(ring) + Cardinality(Holders)

\* One request holds an instance it has acquired while another request has
\* released its instance into the ring.
C10_Witness ==
    \E r, q \in Reqs :
        /\ r # q
        /\ Holds(r)
        /\ relCount[q] = 1
        /\ Len(ring) >= 1
        /\ live >= 2

\* Positions of a worker inside BrowserPool::acquire (at "start" it is about to
\* pop), in the order in which acquire passes them.
AcquireRank(p) ==
    CASE p = "start" -> 0
      [] p = "read_size" -> 1
      [] p = "read_len" -> 2
      [] p = "scale" -> 3
      [] OTHER -> 4

InAcquire(r) == pc[r] \in {"start", "read_size", "read_len", "scale"}

\* Some step of acquire, for request r.
AcquireStep(r) ==
    \/ Start(r)
    \/ AcquireReadSize(r)
    \/ AcquireReadLenScale(r)
    \/ \E spawned \in BOOLEAN : AcquireReadLenFallback(r, spawned)
    \/ AcquireScaleUp(r)
    \/ \E spawned \in BOOLEAN : AcquireScaleUpFailed(r, spawned)

\* C11: acquire never waits for a release and is bounded: a worker inside
\* acquire can always take its next step whatever the other requests hold, each
\* step moves it strictly forward (no retry), the ring is popped only by the
\* first step, and a browser is spawned only by the last step, one at a time.
C11_AcquireNeverWaits ==
    /\ [](\A r \in Reqs : InAcquire(r) => ENABLED AcquireStep(r))
    /\ [][/\ \A r \in Reqs :
               (InAcquire(r) /\ pc'[r] # pc[r]) => AcquireRank(pc'[r]) > AcquireRank(pc[r])
          /\ Len(ring') < Len(ring) =>
               \E r \in Reqs : pc[r] = "start" /\ pc'[r] # "start"
          /\ live' > live =>
               /\ live' = live + 1
               /\ \E r \in Reqs : pc[r] \in {"read_len", "scale"} /\ pc'[r] = "leave"]_vars

\* A request got an instance from acquire while the ring was empty and another
\* request still held its instance.
C11_Witness ==
    \E r, q \in Reqs :
        /\ r # q
        /\ inst[r] = "temp"
        /\ Holds(q)
        /\ ring = <<>>

\* C12: a poll that finds renderReady not true and renderError a string returns
\* the init-failure error carrying that string verbatim, in that same poll:
\* without a further sleep and without counting a further attempt; so a
\* returned init failure has slept only for the polls before it.
C12_InitErrorReturnsAtOnce ==
    /\ [][(wpc = "error" /\ wpc' # wpc /\ wresult'[1] # "eval_error"
             /\ renderError[1] = "str")
          => /\ wresult' = <<"init_failed", "Render initialization failed: ", renderError[2]>>
             /\ sleeps' = sleeps
             /\ attempts' = attempts
             /\ polls' = polls]_vars
    /\ [](wresult[1] = "init_failed"
            => /\ Len(sleeps) = attempts
               /\ polls = attempts + 1
               /\ attempts < MAX_ATTEMPTS)

\* The call returned the page's error "boom" after some polls that saw nothing,
\* long before the attempt budget was used up.
C12_Witness ==
    /\ wresult = <<"init_failed", "Render initialization failed: ", "boom">>
    /\ attempts >= 1
    /\ attempts < MAX_ATTEMPTS - 1

\* C13: the loop polls at most 50 times; the timeout error is returned exactly
\* when 50 polls saw neither readiness nor an error string; and a poll that
\* sees renderReady === true, the 50th included, ends in Ok.
C13_FiftyPolls ==
    /\ [](/\ polls <= MAX_ATTEMPTS
          /\ wresult[1] = "timeout" => (attempts = MAX_ATTEMPTS /\ polls = MAX_ATTEMPTS)
          /\ attempts = MAX_ATTEMPTS => (wpc = "loop" \/ wresult[1] = "timeout")
          /\ wresult[1] = "ok" => attempts < MAX_ATTEMPTS)
    /\ [][(wpc = "loop" /\ wpc' # wpc /\ wresult'[1] # "eval_error"
             /\ polls' = polls + 1 /\ renderReady = <<"bool", "true">>)
          => wresult'[1] = "ok"]_vars
    /\ [][(wpc = "loop" /\ attempts = MAX_ATTEMPTS /\ wpc' # wpc)
          => wresult'[1] = "timeout"]_vars

\* Readiness was seen by the 50th poll and the call returned Ok.
C13_Witness ==
    /\ wresult[1] = "ok"
    /\ polls = MAX_ATTEMPTS
    /\ attempts = MAX_ATTEMPTS - 1

\* C14 (as claimed): a call that returns Ok has slept once after the polling
\* sleeps, for render_delay_ms when the request supplies it and for the poll
\* interval otherwise.
C14_DelayIsRenderDelay ==
    wresult[1] = "ok" =>
        /\ Len(sleeps) = attempts + 1
        /\ sleeps[Len(sleeps)] = UnwrapOr(render_delay_ms, PollInterval)

\* The hosts the specification allows for a caller-supplied CDN URL.
CdnAllowList == {"cdn.jsdelivr.net", "unpkg.com", "cdnjs.cloudflare.com"}

ValidCdn(u) == u.scheme = "https" /\ u.host \in CdnAllowList

\* C15 (as claimed): a caller-supplied cdn_url reaches the page only if it
\* parses, has scheme https and an allow-listed host; any other caller-supplied
\* URL makes generate_html return the InvalidCdn error and no HTML.
C15_CdnValidated ==
    \A u \in request.cdn_url :
        /\ (html[1] = "ok" /\ html[2].script_src = u) => ValidCdn(u)
        /\ (html[1] # "none" /\ ~ValidCdn(u)) => html = <<"err", "InvalidCdn">>

\* What the page gets when it runs `{data}` replaced by text as a JavaScript
\* expression inside the <script> element: the HTML parser ends the element at
\* the first "</script>"; else the text is read as a double-quoted string
\* literal, a backslash taking the next character with it (\n a newline, any
\* other character itself) and the first bare quote ending the literal; text
\* left after the literal is further code.
RECURSIVE JsStringBody(_, _)
JsStringBody(t, acc) ==
    IF t = <<>> THEN <<"syntax_error">>
    ELSE IF t[1] = "\\"
         THEN IF Len(t) < 2 THEN <<"syntax_error">>
              ELSE JsStringBody(SubSeq(t, 3, Len(t)),
                                Append(acc, IF t[2] = "n" THEN "\n" ELSE t[2]))
    ELSE IF t[1] = "\""
         THEN IF Len(t) = 1 THEN <<"value", acc>> ELSE <<"breaks_out">>
    ELSE IF t[1] = "\n" THEN <<"syntax_error">>
    ELSE JsStringBody(Tail(t), Append(acc, t[1]))

PageReads(text) ==
    IF \E i \in 1..Len(text) : text[i] = "</script>" THEN <<"script_ended">>
    ELSE IF text = <<>> \/ text[1] # "\"" THEN <<"syntax_error">>
    ELSE JsStringBody(Tail(text), <<>>)

\* C16 (as claimed): the text put in place of {data} evaluates in the page to
\* the original JSON value and never ends or alters the surrounding script.
C16_DataRoundTrips ==
    html[1] = "ok" => PageReads(html[2].data_text) = <<"value", request.data>>

\* C17: the mime_type of a render_base64 response is fixed by options.format:
\* image/png for png, image/jpeg for jpeg and jpg, application/pdf for pdf,
\* application/octet-stream for anything else; and responses to requests with
\* the same format carry the same mime_type.
C17_MimeFromFormat ==
    /\ response[1] = "ok" =>
          LET mime == response[2].mime_type
              format == request.format
          IN /\ format = "png" => mime = "image/png"
             /\ format \in {"jpeg", "jpg"} => mime = "image/jpeg"
             /\ format = "pdf" => mime = "application/pdf"
             /\ format \notin {"png", "jpeg", "jpg", "pdf"} => mime = "application/octet-stream"
    /\ \A p, q \in responses : p[1] = q[1] => p[2] = q[2]

\* A jpg request has just been answered with image/jpeg, after a jpeg, a pdf and
\* a png request were answered.
C17_Witness ==
    /\ response[1] = "ok"
    /\ request.format = "jpg"
    /\ response[2].mime_type = "image/jpeg"
    /\ {"jpeg", "pdf", "png"} \subseteq {p[1] : p \in responses}

\* C18: when the render future is dropped while it waits for a permit, nothing
\* changes but the request being gone: pool, permits, and the request's own
\* worker state (no instance, no tab, no guard, no acquire) stay as they were,
\* and the request is idle, with no worker, until it is submitted again.
C18_DropWhileWaiting ==
    /\ [][\A r \in Reqs :
            (pc[r] = "waiting" /\ pc'[r] = "idle")
            => UNCHANGED <<poolVars, permits, permit, reqLocals>>]_vars
    /\ [](\A r \in Reqs :
            (pc[r] = "waiting" \/ dropped[r])
            => /\ ~permit[r] /\ ~Holds(r) /\ ~acquired[r]
               /\ guards[r] = <<>> /\ tab[r] = "none" /\ relCount[r] = 0)
    /\ [](\A r \in Reqs : dropped[r] => pc[r] = "idle")
    /\ []((\A r \in Reqs : pc[r] = "idle") => permits = MaxConcurrent)

\* A request was dropped while every permit was held by running requests.
C18_Witness ==
    \E r \in Reqs :
        /\ dropped[r]
        /\ permits = 0
        /\ Cardinality({q \in Reqs : Running(q) /\ permit[q]}) = MaxConcurrent

\* C19 (as claimed): a running worker's request still holds its permit, so at
\* most max_concurrent workers run at once, also when futures are dropped.
C19_WorkerHoldsPermit ==
    /\ \A r \in Reqs : Running(r) => permit[r]
    /\ Cardinality({r \in Reqs : Running(r)}) <= MaxConcurrent

\* C20: under a fair scheduler, with every browser call returning, a submitted
\* request that is awaited gets a permit and its render finishes (with bytes or
\* an error), and whenever a request is in flight some request can step.
C20_NoRequestWaitsForever ==
    /\ \A r \in Reqs : (pc[r] = "waiting") ~> permit[r]
    /\ \A r \in Reqs : (pc[r] = "waiting") ~> (pc[r] = "finished")
    /\ []((\E r \in Reqs : pc[r] # "idle")
            => ENABLED (\E r \in Reqs : AcquirePermit(r) \/ WorkerStep(r) \/ Complete(r)))

\* A request waits with no permit free while a render that holds one has
\* finished and is about to hand it back.
C20_Witness ==
    \E r, q \in Reqs :
        /\ pc[r] = "waiting"
        /\ permits = 0
        /\ pc[q] = "finished"
        /\ permit[q]

\* C25 (as claimed): the health snapshot's permit capacity is the max_concurrent
\* the engine was built with and its pool capacity is max_pool_size, so the
\* available permits and the pool size never exceed their capacities.
C25_HealthCapacities ==
    /\ HealthStatus.max_concurrent = MaxConcurrent
    /\ HealthStatus.total_capacity = max_size
    /\ HealthStatus.available_permits <= HealthStatus.max_concurrent
    /\ HealthStatus.pool_size <= HealthStatus.total_capacity

\* C27 (as claimed): whenever a spawn inside acquire fails, acquire spawns once
\* more before it gives up: acquire returns an error only out of the scale-up
\* branch, after the scale-up spawn and one further spawn have both failed.
C27_EverySpawnRetried ==
    [][\A r \in Reqs :
          (pc[r] \in {"read_len", "scale"} /\ pc'[r] = "finished") => pc[r] = "scale"]_vars

\* C27 (amended): a failed scale-up spawn leaves current_size alone and is
\* followed by exactly one further spawn, whose outcome is acquire's outcome;
\* acquire returns an error only when its last spawn failed, which for the
\* fallback spawn taken without a scale-up attempt is its only spawn.
C27_ScaleUpSpawnRetried ==
    [][\A r \in Reqs :
          /\ (pc[r] = "scale" /\ pc'[r] # "scale" /\ inst'[r] # "member")
             => /\ current_size' = current_size
                /\ \/ inst'[r] = "temp" /\ live' = live + 1 /\ acquired'[r]
                   \/ pc'[r] = "finished" /\ live' = live /\ ~acquired'[r] /\ ~Holds(r)'
          /\ (pc[r] \in {"read_len", "scale"} /\ pc'[r] = "finished")
             => (live' = live /\ current_size' = current_size /\ ~acquired'[r])]_vars

\* After a scale-up that failed, with the pool still at the size it had, a
\* request holds the temporary instance of the second spawn while another
\* request has ended with acquire's error.
C27_Witness ==
    \E r, q \in Reqs :
        /\ r # q
        /\ inst[r] = "temp"
        /\ current_size = 1
        /\ max_size > 1
        /\ ring = <<>>
        /\ pc[q] = "finished" /\ ~acquired[q] /\ live = 1

\* C28 (as claimed): when acquire pops a pool member that fails its probe, the
\* instance is discarded and current_size goes down by one.
C28_UnhealthyPopDecrements ==
    [][\A r \in Reqs :
          (pc[r] = "start" /\ pc'[r] = "read_size" /\ ring # <<>> /\ Head(ring) = "member")
          => current_size' = current_size - 1]_vars

\* C30: a request gets an instance from acquire only by popping it from the ring
\* with a passed probe or by a spawn inside that acquire; an instance that
\* failed its probe is gone: not handed to the caller, not back in the ring.
C30_ReturnedProbedOrSpawned ==
    [][\A r \in Reqs :
          /\ (~Holds(r) /\ Holds(r)')
             => \/ /\ pc[r] = "start" /\ ring # <<>>
                   /\ inst'[r] = Head(ring) /\ ring' = Tail(ring) /\ live' = live
                \/ /\ pc[r] \in {"read_len", "scale"}
                   /\ live' = live + 1 /\ ring' = ring
          /\ (pc[r] = "start" /\ pc'[r] = "read_size" /\ ring # <<>>)
             => (ring' = Tail(ring) /\ live' = live - 1 /\ ~Holds(r)')]_vars

\* A request holds an instance it spawned after the instance it had popped
\* failed the probe and was discarded: the ring is empty and nothing else lives.
C30_Witness ==
    \E r \in Reqs :
        /\ Holds(r)
        /\ ring = <<>>
        /\ live = 1
        /\ \A q \in Reqs \ {r} : pc[q] = "idle"
        /\ \A q \in Reqs : relCount[q] = 0
        /\ inst[r] = "temp"

\* C29: release(instance) never blocks; the instance is pushed on the idle ring
\* exactly when the probe found it healthy and the ring had room, and an
\* instance found unhealthy is dropped: the ring is as release found it and
\* one browser fewer lives.
C29_ReleasePushesHealthy ==
    /\ ~rel.done /\ rel.instance # NoInst => ENABLED Release
    /\ rel.done =>
          /\ (ring = Append(rel.before, rel.instance))
                <=> (rel.healthy /\ Len(rel.before) < max_size)
          /\ ring # Append(rel.before, rel.instance) =>
                (ring = rel.before /\ live = Len(ring))
          /\ ~rel.healthy => (ring = rel.before /\ live = Len(ring))

\* release has returned for an unhealthy instance that found room in a ring
\* that was not empty: the ring is as it was and the instance is gone.
C29_Witness ==
    /\ rel.done
    /\ ~rel.healthy
    /\ rel.before # <<>>
    /\ Len(rel.before) < max_size
    /\ ring = rel.before
    /\ live = Len(ring)

\* The steps C21 lists, in the order it lists them.
ListedOrder == <<"permit", "compose", "acquire", "new_tab", "set_bounds",
                 "navigate", "wait_selector", "wait_ready", "capture",
                 "close_tab", "release">>

\* Every step render can start, in the order of the code.
FullOrder == StepOrder \o <<"close_tab", "release", "drop_permit">>

RankIn(order, step) == CHOOSE i \in DOMAIN order : order[i] = step
StepsOf(order) == {order[i] : i \in DOMAIN order}

\* The step was started and ended well.
Succeeded(step) == \E i \in DOMAIN trace : trace[i] = [step |-> step, ok |-> TRUE]
Started(step) == \E i \in DOMAIN trace : trace[i].step = step

C22_UnsupportedBeforeBrowser ==
    (stage # "idle" /\ request.name \notin Registry) =>
        /\ ~Started("acquire")
        /\ ~Started("new_tab")
        /\ ring = <<"member">> /\ current_size = MinSize /\ live = MinSize
        /\ stage = "done" => (outcome = "Unsupported library" /\ permits = MaxConcurrent)

\* C23: whenever generate_html accepted the request, the registry lookup of
\* render_sync succeeds: "Unsupported library" is never raised once a browser
\* has been acquired and navigated.
C23_ComposerExecutorAgree ==
    Succeeded("compose") =>
        /\ request.name \in Registry
        /\ ~(Started("lookup") /\ ~Succeeded("lookup"))
        /\ ~(outcome = "Unsupported library" /\ Started("navigate"))

\* C24: POST /render answers 200 with the base64 envelope exactly when
\* options.return_base64 is true and 200 with the binary body otherwise, and for
\* every error of the engine it answers 500 with a detail that contains the
\* engine's error message, never 200.
C24_RouteAnswers ==
    http.status # 0 =>
        /\ engine_result[1] = "ok" =>
              /\ http.status = 200
              /\ (http.content_type = "application/json") <=> (return_base64 = {TRUE})
              /\ (http.content_type = "application/octet-stream") <=> (return_base64 # {TRUE})
              /\ return_base64 = {TRUE} =>
                    http.body = [data |-> Base64Encode(engine_result[2]),
                                 mime_type |-> MimeType(request.format)]
              /\ return_base64 # {TRUE} => http.body = engine_result[2]
        /\ engine_result[1] = "err" =>
              /\ http.status = 500
              /\ \E i \in DOMAIN http.body.detail : http.body.detail[i] = engine_result[2]

\* A request that asked for base64 and named an unsupported library was
\* answered 500 with that message in the detail.
C24_Witness ==
    /\ return_base64 = {TRUE}
    /\ engine_result = <<"err", "Unsupported library">>
    /\ http.status = 500

\* C26: once the pool is constructed min_size <= current_size, also when some
\* of the initial spawns failed, and a pool built with min_size = 1 reports
\* pool_size = 1 before any request.
C26_MinSizeKept ==
    newpc = "ok" =>
        /\ min_size <= current_size
        /\ min_size = 1 => HealthStatus.pool_size = 1

\* C31: wait_for_render_ready fails with "Render initialization failed" only
\* when window.renderError is a non-empty string; when it is null or the empty
\* string the render does not fail and polling goes on.
C31_InitFailedOnlyNonEmpty ==
    [][wpc = "error" =>
          /\ (wresult'[1] = "init_failed")
                => (renderError[1] = "str" /\ renderError[2] # "")
          /\ (renderError \in {<<"null", "null">>, <<"str", "">>}
                /\ wresult'[1] # "eval_error")
                => (wpc' = "loop" /\ attempts' = attempts + 1)]_vars

\* C36: a poll that finds window.renderReady === true while window.renderError
\* holds a string leaves the loop without looking at renderError: the function
\* returns Ok (or the error of the evaluation itself), never "Render
\* initialization failed".
C36_ReadyBeforeError ==
    [][(wpc = "loop" /\ polls' = polls + 1
            /\ ReadyIsTrue(renderReady) /\ AsStr(renderError) # {})
          => /\ wpc' = "returned"
             /\ wresult'[1] \in {"ok", "eval_error"}
             /\ wresult'[1] = "ok" => sleeps' = Append(sleeps, RenderDelay)]_vars

\* The function returned Ok on a page whose renderReady is true and whose
\* renderError is a non-empty string.
C36_Witness ==
    /\ wresult = <<"ok">>
    /\ ReadyIsTrue(renderReady)
    /\ renderError = <<"str", "boom">>

\* C32: in the single-browser engine a failed get_or_create_browser makes
\* render_sync clear the cache and call it exactly once more; the second
\* failure is the render's error; and when get_or_create_browser returns a
\* browser the cache holds that browser.
C32_RetryOnceAndCache ==
    [][\A t \in Threads :
          /\ (sgot[t] = 0 /\ sgot'[t] # 0) => cache' = sgot'[t]
          /\ (spc[t] = "get1" /\ spc'[t] # "get1" /\ sgot'[t] = 0)
                => (spc'[t] = "clear" /\ sresult'[t] = "none")
          /\ (spc[t] = "clear" /\ spc'[t] # "clear")
                => (cache' = 0 /\ spc'[t] = "get2" /\ stries'[t] = 1)
          /\ (spc[t] = "get2" /\ spc'[t] # "get2" /\ sgot'[t] = 0)
                => (spc'[t] = "done" /\ sresult'[t] = "Failed to launch browser")
          /\ stries'[t] <= 2
          /\ (spc'[t] = "done" /\ sresult'[t] = "Failed to launch browser")
                => stries'[t] = 2]_vars

\* A render has failed after its second get_or_create_browser failed, and
\* another thread got a browser in between.
C32_Witness ==
    \E t, u \in Threads :
        /\ t # u
        /\ spc[t] = "done"
        /\ sresult[t] = "Failed to launch browser"
        /\ stries[t] = 2
        /\ sgot[u] # 0

\* C37: in the single-browser engine the tab render_sync opened is closed on
\* every exit path: no render_sync has returned with its tab still open.
C37_SingleTabClosed ==
    \A t \in Threads : spc[t] = "done" => stab[t] # "open"

\* C33: acquire spawns a browser only when no instance is idle in the ring:
\* after discarding an unhealthy popped instance it tries the remaining idle
\* instances, so it goes on to the spawning branches only with the ring empty,
\* and every spawn of acquire finds the ring empty.
C33_SpawnOnlyWhenNoneIdle ==
    [][\A r \in Reqs :
          /\ (pc[r] = "start" /\ pc'[r] = "read_size" /\ ring # <<>>) => ring' = <<>>
          /\ (~Holds(r) /\ Holds(r)' /\ live' = live + 1) => ring = <<>>]_vars

\* C34: the idle ring never holds more instances than current_size and
\* current_size is never 0, so acquire's usage ratio 1 - idle/current_size lies
\* in [0, 1].
C34_IdleAtMostSize ==
    /\ current_size > 0
    /\ Len(ring) <= current_size

\* C35: the substitution of {width} and {height} touches only the placeholders
\* of the library's init script: the page's script is the template with its
\* own {width} and {height} replaced and the escaped data, as it is, in the
\* place of {data}, whatever placeholder text the data contains.
C35_DataKeepsPlaceholders ==
    html[1] = "ok" =>
        html[2].init_script =
            ReplaceChar(ReplaceChar(ReplaceChar(TemplateInitScript(request.name),
                                                "{width}", WidthText),
                                    "{height}", HeightText),
                        "{data}", html[2].data_text)

TypeOK ==
    /\ ring \in Seq(Kinds)
    /\ current_size \in Nat
    /\ max_size \in 1..MaxSize
    /\ permits \in Nat
    /\ \A r \in Reqs : pc[r] \in AllPcs
    /\ \A r \in Reqs : inst[r] \in Kinds \cup {NoInst}

====
